---- MODULE Spec2Model ----
(***************************************************************************)
(* Model of simple_generation.SimpleGenerator: the construction of the     *)
(* generator's generation config, and one invocation of                    *)
(* SimpleGenerator.__call__ (prompt preparation, generation-argument       *)
(* reconciliation, base_loop, and the adaptive batch-size search).         *)
(*                                                                         *)
(* Conventions.  A Python dict is a function whose domain is a set of      *)
(* strings.  A Python str is a sequence of character codes.  Floats are    *)
(* written as strings ("0.7").  model.generate, the tokenizer and the      *)
(* device transfer are external: each batch step draws its outcome from    *)
(* the outcomes those calls can have.                                      *)
(***************************************************************************)
EXTENDS Integers, Sequences, FiniteSets, TLC

\* ------------------------------------------------------------------ bounds
MaxTexts == 3
MaxStrLen == 2
MaxStartingBatchSize == 4
MaxExplicitBatchSize == 2

\* ------------------------------------------------------- dict primitives
EmptyDict == [k \in {} |-> 0]

\* dict.update(other): keys of other win
Update(d, other) ==
    [k \in (DOMAIN d) \cup (DOMAIN other) |->
        IF k \in DOMAIN other THEN other[k] ELSE d[k]]

\* d[key] = value
SetItem(d, key, value) ==
    [k \in (DOMAIN d) \cup {key} |-> IF k = key THEN value ELSE d[k]]

\* the dict left after d.pop(key)
Without(d, key) == [k \in (DOMAIN d) \ {key} |-> d[k]]

\* ------------------------------------------------- generation configs
\* class DefaultGenerationConfig: the hard-coded fallback
DefaultGenerationConfig ==
    [max_new_tokens |-> 512,
     do_sample |-> TRUE,
     temperature |-> "0.7",
     top_p |-> "1.0",
     top_k |-> 50,
     num_return_sequences |-> 1]

\* the generation configs a model can publish (their fields)
PublishedConfigs ==
    { [max_length |-> 20],
      [max_new_tokens |-> 64, temperature |-> "1.0"],
      [max_length |-> 20, max_new_tokens |-> 64, num_return_sequences |-> 2],
      [do_sample |-> FALSE, top_k |-> 10] }

\* what GenerationConfig.from_pretrained can deliver: a published config,
\* or a failure to load one
PretrainedOutcomes ==
    { [loaded |-> TRUE, fields |-> f] : f \in PublishedConfigs }
    \cup { [loaded |-> FALSE, fields |-> EmptyDict] }

\* the **generation_kwargs a caller can pass
CallerKwargs ==
    { EmptyDict,
      [max_new_tokens |-> 32],
      [max_length |-> 10],
      [temperature |-> "0.3", num_return_sequences |-> 2] }

\* tokenizer.eos_token_id
eos_token_id == 2

\* __init__, lines 118-124: the published config when it loads, else the
\* fallback
LoadGenerationConfig(pub) ==
    IF pub.loaded
    THEN [origin |-> "published", fields |-> pub.fields]
    ELSE [origin |-> "default", fields |-> DefaultGenerationConfig]

\* GenerationConfig.to_dict()
to_dict(config) == config.fields

\* lines 236-238
SetPadAndEos(args) ==
    SetItem(SetItem(args, "pad_token_id", eos_token_id),
            "eos_token_id", eos_token_id)

\* a slip that leaves the legacy field in place
KeepMaxLength(args) == args

\* lines 240-246
RenameMaxLength(args) ==
    IF "max_length" \in DOMAIN args
    THEN SetItem(Without(args, "max_length"), "max_new_tokens",
                 args["max_length"])
    ELSE args

\* lines 248-252
MergeKwargs(args, kwargs) ==
    IF Cardinality(DOMAIN kwargs) > 0 THEN Update(args, kwargs) ELSE args

\* lines 234-252
BuildGenerationArgs(config, kwargs) ==
    MergeKwargs(RenameMaxLength(SetPadAndEos(to_dict(config))), kwargs)

\* number of sequences model.generate returns per input
NumReturnSequences(args) ==
    IF "num_return_sequences" \in DOMAIN args
    THEN args["num_return_sequences"] ELSE 1

\* ---------------------------------------------------------------- texts
Space == 32

\* the str "ab..." of length n
Str(n) == [i \in 1..n |-> 96 + i]

\* the j-th element of a list of texts
Word(j) == <<96 + j, 96 + j>>

TextInputs ==
    { [kind |-> "str", val |-> Str(n)] : n \in 1..MaxStrLen }
    \cup
    { [kind |-> "list", val |-> [j \in 1..n |-> Word(j)]] : n \in 1..MaxTexts }

SystemPrompts == { "None", "llama-2", "vicuna" }

\* Python's `for text in texts`: a str yields its characters, a list its
\* elements
Iterate(t) ==
    IF t.kind = "str"
    THEN [i \in 1..Len(t.val) |-> <<t.val[i]>>]
    ELSE t.val

\* PromptHandler(system_prompt) with one user message and an open system
\* message, then build_prompt()
PromptHandlerBuild(sp, text) == [template |-> sp, user |-> text]

\* lines 219-226: the body of the loop for one text
TemplatePrompt(sp, text) ==
    PromptHandlerBuild(sp, IF sp = "llama-2" THEN Append(text, Space) ELSE text)

\* lines 211-228
ApplySystemPrompt(sp, t) ==
    IF sp # "None"
    THEN [kind |-> "list",
          val |-> [i \in 1..Len(Iterate(t)) |-> TemplatePrompt(sp, Iterate(t)[i])]]
    ELSE t

\* lines 230-232
WrapInList(t) ==
    IF t.kind # "list" THEN [kind |-> "list", val |-> <<t.val>>] ELSE t

\* lines 211-232: the list of prompts handed to the dataset
PreparePrompts(sp, t) == WrapInList(ApplySystemPrompt(sp, t)).val

\* ------------------------------------------------------------ batching
\* the batch_size argument: "auto" or an explicit size
BatchSizeArgs ==
    { [kind |-> "auto", n |-> 0] }
    \cup { [kind |-> "int", n |-> b] : b \in 1..MaxExplicitBatchSize }

\* a slip that sends every call through the search
AlwaysSearch(b) == TRUE

\* line 319
UsesSearch(b) == b.kind = "auto"

\* a slip that drops the starting_batch_size argument, leaving the
\* decorator's own default
DecoratorDefaultBatchSize(sbs) == 128

\* line 314: the size the search starts from
InitialBatchSize(sbs) == sbs

\* find_executable_batch_size: an exception that makes the search retry
ShouldReduce(e) == e = "oom"

\* find_executable_batch_size: the next size to try
Halve(b) == b \div 2

\* find_executable_batch_size: no size is left to try
NoExecutableBatchSize(b) == b = 0

Min(a, b) == IF a < b THEN a ELSE b

\* the inputs (1-based positions in the dataset) of batch number i of the
\* DataLoader, lines 268-274
BatchInputs(i, b, n) == (i * b + 1) .. Min((i + 1) * b, n)

\* len(loader) has been exhausted
LoaderExhausted(i, b, n) == i * b >= n

\* lines 285-297: the decoded outputs of a batch, k sequences per input, in
\* input order
Decoded(i, b, n, k) ==
    [p \in 1..(Cardinality(BatchInputs(i, b, n)) * k) |->
        [input |-> i * b + 1 + ((p - 1) \div k),
         seq |-> ((p - 1) % k) + 1,
         text |-> "generated"]]

\* line 305: [""] * len(batch["input_ids"])
EmptyStrings(i, b, n) ==
    [p \in 1..Cardinality(BatchInputs(i, b, n)) |->
        [input |-> i * b + p, seq |-> 1, text |-> ""]]

\* the steps of a loop iteration that can raise: the transfer of the batch
\* to the device (line 283), and generation and decoding (lines 285-297)
Stages == { "to", "generate" }

\* torch.cuda.OutOfMemoryError, or any other exception
Exceptions == { "oom", "other" }

\* a slip that moves the device transfer into the try block
CaughtAtEveryStage(stage, e) == e # "oom"

\* a slip that drops the out-of-memory test of the handler
CaughtWhateverRaised(stage, e) == stage = "generate"

\* lines 284-305: the exceptions the handler of base_loop swallows
Caught(stage, e) == stage = "generate" /\ e # "oom"

\* a slip that keeps the list across calls of base_loop
KeepOutputTexts(prev) == prev

\* line 276
NewOutputTexts(prev) == <<>>

\* ---------------------------------------------------------------- state
VARIABLES
    published,              \* outcome of GenerationConfig.from_pretrained
    generation_config,      \* self.generation_config
    system_prompt,          \* self.system_prompt
    texts,                  \* argument of __call__
    batch_size,             \* argument of __call__
    starting_batch_size,    \* argument of __call__
    generation_kwargs,      \* argument of __call__
    pc,                     \* position in __call__
    prompts,                \* texts as handed to the dataset
    current_generation_args,
    searching,              \* inside find_batch_size_loop
    bs,                     \* batch size of the running attempt
    idx,                    \* batches of the running attempt already done
    output_texts,           \* local of base_loop
    exc,                    \* exception in flight or raised to the caller
    responses,              \* value returned by __call__
    attempts,               \* history: calls of base_loop, size and result
    log                     \* history: batch outcomes of the running attempt

vars == << published, generation_config, system_prompt, texts, batch_size,
           starting_batch_size, generation_kwargs, pc, prompts,
           current_generation_args, searching, bs, idx, output_texts, exc,
           responses, attempts, log >>

inputs == << published, generation_config, system_prompt, texts, batch_size,
             starting_batch_size, generation_kwargs >>

\* SimpleGenerator.__init__ followed by the entry into __call__
Init ==
    /\ published \in PretrainedOutcomes
    /\ generation_config = LoadGenerationConfig(published)
    /\ system_prompt \in SystemPrompts
    /\ texts \in TextInputs
    /\ batch_size \in BatchSizeArgs
    /\ starting_batch_size \in 1..MaxStartingBatchSize
    /\ generation_kwargs \in CallerKwargs
    /\ pc = "call"
    /\ prompts = <<>>
    /\ current_generation_args = EmptyDict
    /\ searching = FALSE
    /\ bs = 0
    /\ idx = 0
    /\ output_texts = <<>>
    /\ exc = "none"
    /\ responses = <<>>
    /\ attempts = <<>>
    /\ log = <<>>

\* lines 210-263
Prepare ==
    /\ pc = "call"
    /\ prompts' = PreparePrompts(system_prompt, texts)
    /\ current_generation_args' =
            BuildGenerationArgs(generation_config, generation_kwargs)
    /\ pc' = "dispatch"
    /\ UNCHANGED << inputs, searching, bs, idx, output_texts, exc, responses,
                    attempts, log >>

\* lines 265-276: a call of base_loop(b)
EnterBaseLoop(b) ==
    /\ bs' = b
    /\ idx' = 0
    /\ output_texts' = NewOutputTexts(output_texts)
    /\ log' = <<>>
    /\ attempts' = Append(attempts, [size |-> b, result |-> "running"])
    /\ pc' = "loop"

SetResult(r) ==
    [attempts EXCEPT ![Len(attempts)] = [@ EXCEPT !.result = r]]

\* lines 319-323: batch_size == "auto", the search is entered
DispatchAuto ==
    /\ pc = "dispatch"
    /\ UsesSearch(batch_size)
    /\ searching' = TRUE
    /\ bs' = InitialBatchSize(starting_batch_size)
    /\ pc' = "search"
    /\ UNCHANGED << inputs, prompts, current_generation_args, idx,
                    output_texts, exc, responses, attempts, log >>

\* lines 324-325: an explicit batch size
DispatchExplicit ==
    /\ pc = "dispatch"
    /\ ~UsesSearch(batch_size)
    /\ EnterBaseLoop(batch_size.n)
    /\ UNCHANGED << inputs, prompts, current_generation_args, searching, exc,
                    responses >>

\* find_executable_batch_size, head of its loop: give up at size zero
SearchGiveUp ==
    /\ pc = "search"
    /\ NoExecutableBatchSize(bs)
    /\ exc' = "no_executable_batch_size"
    /\ pc' = "raised"
    /\ UNCHANGED << inputs, prompts, current_generation_args, searching, bs,
                    idx, output_texts, responses, attempts, log >>

\* find_executable_batch_size, head of its loop: call
\* find_batch_size_loop(bs), lines 315-317
SearchTry ==
    /\ pc = "search"
    /\ ~NoExecutableBatchSize(bs)
    /\ EnterBaseLoop(bs)
    /\ UNCHANGED << inputs, prompts, current_generation_args, searching, exc,
                    responses >>

\* lines 283-310, one iteration: generation and decoding succeed
BatchGenerated ==
    /\ pc = "loop"
    /\ ~LoaderExhausted(idx, bs, Len(prompts))
    /\ output_texts' = output_texts \o
            Decoded(idx, bs, Len(prompts),
                    NumReturnSequences(current_generation_args))
    /\ log' = Append(log, [stage |-> "generate", exc |-> "none"])
    /\ idx' = idx + 1
    /\ UNCHANGED << inputs, pc, prompts, current_generation_args, searching,
                    bs, exc, responses, attempts >>

\* lines 283-310, one iteration: an exception is raised and swallowed
BatchSkipped ==
    /\ pc = "loop"
    /\ ~LoaderExhausted(idx, bs, Len(prompts))
    /\ \E stage \in Stages, e \in Exceptions :
          /\ Caught(stage, e)
          /\ log' = Append(log, [stage |-> stage, exc |-> e])
    /\ output_texts' = output_texts \o EmptyStrings(idx, bs, Len(prompts))
    /\ idx' = idx + 1
    /\ UNCHANGED << inputs, pc, prompts, current_generation_args, searching,
                    bs, exc, responses, attempts >>

\* lines 283-301, one iteration: an exception leaves base_loop
BatchRaises ==
    /\ pc = "loop"
    /\ ~LoaderExhausted(idx, bs, Len(prompts))
    /\ \E stage \in Stages, e \in Exceptions :
          /\ ~Caught(stage, e)
          /\ log' = Append(log, [stage |-> stage, exc |-> e])
          /\ exc' = e
          /\ attempts' = SetResult(e)
    /\ pc' = "except"
    /\ UNCHANGED << inputs, prompts, current_generation_args, searching, bs,
                    idx, output_texts, responses >>

\* line 312 and lines 323-327: base_loop returns, __call__ returns
LoopReturn ==
    /\ pc = "loop"
    /\ LoaderExhausted(idx, bs, Len(prompts))
    /\ responses' = output_texts
    /\ attempts' = SetResult("ok")
    /\ pc' = "returned"
    /\ UNCHANGED << inputs, prompts, current_generation_args, searching, bs,
                    idx, output_texts, exc, log >>

\* find_executable_batch_size, its handler: halve and go round again
SearchReduce ==
    /\ pc = "except"
    /\ searching
    /\ ShouldReduce(exc)
    /\ bs' = Halve(bs)
    /\ exc' = "none"
    /\ pc' = "search"
    /\ UNCHANGED << inputs, prompts, current_generation_args, searching, idx,
                    output_texts, responses, attempts, log >>

\* find_executable_batch_size, its handler: any other exception is raised
SearchReraise ==
    /\ pc = "except"
    /\ searching
    /\ ~ShouldReduce(exc)
    /\ pc' = "raised"
    /\ UNCHANGED << inputs, prompts, current_generation_args, searching, bs,
                    idx, output_texts, exc, responses, attempts, log >>

\* line 325: nothing around base_loop(batch_size) handles an exception
Propagate ==
    /\ pc = "except"
    /\ ~searching
    /\ pc' = "raised"
    /\ UNCHANGED << inputs, prompts, current_generation_args, searching, bs,
                    idx, output_texts, exc, responses, attempts, log >>

Next ==
    \/ Prepare
    \/ DispatchAuto
    \/ DispatchExplicit
    \/ SearchGiveUp
    \/ SearchTry
    \/ BatchGenerated
    \/ BatchSkipped
    \/ BatchRaises
    \/ LoopReturn
    \/ SearchReduce
    \/ SearchReraise
    \/ Propagate

Spec == Init /\ [][Next]_vars

\* __call__ is sequential code: whatever step is enabled is taken
FairSpec == Spec /\ WF_vars(Next)

TypeOK ==
    /\ pc \in { "call", "dispatch", "search", "loop", "except", "returned",
                "raised" }
    /\ bs \in Nat
    /\ idx \in Nat

\* ------------------------------------------------------------ properties
Prepared == pc # "call"

Auto == batch_size.kind = "auto"

NumPrompts == Len(prompts)

LastAttempt == attempts[Len(attempts)]

LastLog == log[Len(log)]

\* model.generate has been called with current_generation_args
GenerateCalled == \E j \in 1..Len(log) : log[j].stage = "generate"

\* C1: for every argument name, the caller's value is the one used, and
\* otherwise a built-in fallback default wins over the value the model's
\* published generation config gives for that name.
C1_FallbackBeatsPublished ==
    Prepared =>
        \A k \in (DOMAIN generation_kwargs) \cup (DOMAIN DefaultGenerationConfig) :
            IF k \in DOMAIN generation_kwargs
            THEN current_generation_args[k] = generation_kwargs[k]
            ELSE (published.loaded /\ k \in DOMAIN published.fields)
                 => current_generation_args[k] = DefaultGenerationConfig[k]

\* C2 (as stated): the arguments handed to model.generate never contain
\* max_length, and max_new_tokens carries the value max_length had.
C2_NoMaxLengthEver ==
    Prepared =>
        /\ "max_length" \notin DOMAIN current_generation_args
        /\ "max_length" \in DOMAIN to_dict(generation_config)
           => current_generation_args["max_new_tokens"]
                = to_dict(generation_config)["max_length"]

\* C2 (amended): a max_length of the generator's own generation config is
\* renamed to max_new_tokens before the caller's overrides are merged: the
\* arguments handed to model.generate contain max_length exactly when the
\* caller passed one, and max_new_tokens carries the config's max_length
\* unless the caller passed max_new_tokens.
C2_ConfigMaxLengthRenamed ==
    Prepared =>
        /\ "max_length" \in DOMAIN current_generation_args
           <=> "max_length" \in DOMAIN generation_kwargs
        /\ ( /\ "max_length" \in DOMAIN to_dict(generation_config)
             /\ "max_new_tokens" \notin DOMAIN generation_kwargs )
           => /\ "max_new_tokens" \in DOMAIN current_generation_args
              /\ current_generation_args["max_new_tokens"]
                   = to_dict(generation_config)["max_length"]
        /\ "max_length" \in DOMAIN generation_kwargs
           => current_generation_args["max_length"]
                = generation_kwargs["max_length"]

C2_Witness ==
    /\ GenerateCalled
    /\ "max_length" \in DOMAIN to_dict(generation_config)
    /\ "max_length" \in DOMAIN generation_kwargs
    /\ current_generation_args["max_new_tokens"] = 20
    /\ current_generation_args["max_length"] = 10

\* C3: every parameter of DefaultGenerationConfig that the caller does not
\* override is among the arguments of every model.generate call, with its
\* DefaultGenerationConfig value.
C3_DefaultsAlwaysApplied ==
    Prepared =>
        \A k \in (DOMAIN DefaultGenerationConfig) \ (DOMAIN generation_kwargs) :
            /\ k \in DOMAIN current_generation_args
            /\ current_generation_args[k] = DefaultGenerationConfig[k]

\* C4: with batch_size="auto" the first attempt runs at starting_batch_size,
\* every later attempt follows an out-of-memory failure and runs at half
\* (integer division) the size of the failed one, and the size does not
\* change while an attempt runs.
C4_HalvingSequence ==
    Auto =>
        /\ Len(attempts) >= 1 => attempts[1].size = starting_batch_size
        /\ \A i \in 2..Len(attempts) :
              /\ attempts[i - 1].result = "oom"
              /\ 2 * attempts[i].size <= attempts[i - 1].size
              /\ attempts[i - 1].size <= 2 * attempts[i].size + 1
        /\ pc \in { "loop", "except", "returned" } => bs = LastAttempt.size

C4_Witness ==
    /\ Auto
    /\ pc = "returned"
    /\ Len(attempts) >= 3
    /\ attempts[1].size = 4
    /\ attempts[3].size = 1

RECURSIVE PassResults(_)
\* what a pass with the batch outcomes log[1..j] gathers
PassResults(j) ==
    IF j = 0 THEN <<>>
    ELSE PassResults(j - 1) \o
         ( IF log[j].exc = "none"
           THEN Decoded(j - 1, LastAttempt.size, NumPrompts,
                        NumReturnSequences(current_generation_args))
           ELSE EmptyStrings(j - 1, LastAttempt.size, NumPrompts) )

C5_Safety ==
    Auto =>
        /\ \A i \in 1..Len(attempts) : attempts[i].size >= 1
        /\ pc = "returned" =>
              /\ LastAttempt.result = "ok"
              /\ \A i \in 1..(Len(attempts) - 1) : attempts[i].result = "oom"
              /\ \A j \in 1..Len(log) : log[j].exc # "oom"
              /\ Len(log) * LastAttempt.size >= NumPrompts
              /\ responses = PassResults(Len(log))
        /\ (pc = "raised" /\ exc = "no_executable_batch_size") =>
              /\ \A i \in 1..Len(attempts) : attempts[i].result = "oom"
              /\ LastAttempt.size = 1
        /\ pc = "raised" =>
              exc \in { "no_executable_batch_size", "other" }

Terminated == pc \in { "returned", "raised" }

\* C5: the adaptive search always terminates; it returns the results of the
\* first pass that meets no out-of-memory failure, or, once every size down
\* to 1 has failed with out-of-memory, ends with a fatal error; no attempt
\* runs at a size below 1.
C5_SearchTerminates == [](C5_Safety) /\ (Auto => <>Terminated)

C5_Witness ==
    /\ Auto
    /\ pc = "raised"
    /\ exc = "no_executable_batch_size"
    /\ Len(attempts) >= 3

\* C6 (as stated): during the search, a batch that raises an exception other
\* than out-of-memory always has that exception travel to the caller.
C6_EveryOtherExceptionPropagates ==
    (Auto /\ pc # "search" /\ Len(log) > 0 /\ LastLog.exc = "other")
        => (pc \in { "except", "raised" } /\ exc = "other")

\* C6 (amended): during the search, an exception other than out-of-memory
\* that leaves base_loop (raised outside the try block of a batch, by the
\* transfer of the batch to the device) reaches the caller with no retry;
\* one raised by generation or decoding is caught in base_loop and the
\* attempt goes on; in neither case is the batch size halved or a further
\* attempt started.
C6_NoRetryOnOtherException ==
    Auto =>
        /\ \A i \in 1..Len(attempts) :
              attempts[i].result = "other" =>
                  /\ i = Len(attempts)
                  /\ pc \in { "except", "raised" }
                  /\ exc = "other"
                  /\ bs = attempts[i].size
        /\ (Len(log) > 0 /\ LastLog.exc = "other" /\ LastLog.stage = "to")
              => LastAttempt.result = "other"
        /\ (Len(log) > 0 /\ LastLog.exc = "other" /\ LastLog.stage = "generate")
              => /\ pc \in { "loop", "returned" }
                 /\ LastAttempt.result \in { "running", "ok" }
                 /\ bs = LastAttempt.size

C6_Witness ==
    /\ Auto
    /\ pc = "raised"
    /\ exc = "other"
    /\ Len(attempts) >= 2
    /\ \E j \in 1..Len(log) : log[j].stage = "generate" /\ log[j].exc = "other"

\* the entries of output_texts that belong to the inputs of batch j
EntriesOfBatch(j) ==
    { p \in 1..Len(output_texts) :
        output_texts[p].input \in
            BatchInputs(j - 1, LastAttempt.size, NumPrompts) }

\* C7: in base_loop, a batch whose generation or decoding raises an
\* exception other than out-of-memory contributes one empty string per input
\* of the batch and the loop moves on to the next batch; an out-of-memory
\* exception is never swallowed and ends the call of base_loop.
C7_SkipBatchButNotOOM ==
    \A j \in 1..Len(log) :
        /\ (log[j].stage = "generate" /\ log[j].exc = "other") =>
              /\ idx >= j
              /\ j = Len(log) => pc \in { "loop", "returned" }
              /\ \A p \in EntriesOfBatch(j) : output_texts[p].text = ""
              /\ \A i \in BatchInputs(j - 1, LastAttempt.size, NumPrompts) :
                    Cardinality({ p \in EntriesOfBatch(j) :
                                    output_texts[p].input = i }) = 1
        /\ log[j].exc = "oom" =>
              /\ j = Len(log)
              /\ pc \notin { "loop", "returned" }
              /\ LastAttempt.result = "oom"

C7_Witness ==
    /\ pc = "returned"
    /\ Len(log) >= 3
    /\ log[2].stage = "generate" /\ log[2].exc = "other"
    /\ log[3].exc = "none"
    /\ NumReturnSequences(current_generation_args) = 2

\* C8: with an explicit batch_size, base_loop runs once, at that size; an
\* out-of-memory failure reaches the caller with no halving, no retry and
\* nothing returned.
C8_ExplicitRunsOnce ==
    ~Auto =>
        /\ ~searching
        /\ Len(attempts) <= 1
        /\ Len(attempts) = 1 =>
              /\ attempts[1].size = batch_size.n
              /\ bs = batch_size.n
              /\ attempts[1].result = "oom" =>
                    /\ pc \in { "except", "raised" }
                    /\ exc = "oom"
                    /\ responses = <<>>

C8_Witness ==
    /\ ~Auto
    /\ pc = "raised"
    /\ exc = "oom"
    /\ Len(output_texts) > 0

\* C9: whenever __call__ returns, the result holds exactly
\* num_return_sequences entries for every prompt, in input order.
C9_ResultAligned ==
    pc = "returned" =>
        LET k == NumReturnSequences(current_generation_args) IN
        /\ Len(responses) = NumPrompts * k
        /\ \A p \in 1..Len(responses) :
              responses[p].input = ((p - 1) \div k) + 1

\* C10: a str passed as texts is submitted as exactly one prompt, the whole
\* string, with or without a system prompt.
C10_StrIsOnePrompt ==
    (Prepared /\ texts.kind = "str") =>
        /\ Len(prompts) = 1
        /\ prompts[1] = IF system_prompt = "None"
                        THEN texts.val
                        ELSE TemplatePrompt(system_prompt, texts.val)

====
